---- MODULE Spec2Model ----
\* Model of fairtest_project/testframework/models.py: the Product, Competitor and
\* Zipcode tables and Product.adjusted_price, the competitor-proximity price rule.
EXTENDS Integers, Sequences, FiniteSets, TLC

VARIABLES product, competitors, zipcodes, request,
          pc, rate, co, it, cur, evaluated, lookups, result, exc

tables == <<product, competitors, zipcodes>>
vars == <<product, competitors, zipcodes, request,
          pc, rate, co, it, cur, evaluated, lookups, result, exc>>

\* ---------------------------------------------------------------- bounds
\* Rows of the Zipcode table / Competitor table in the one-request specification.
MaxZipRows == 2
MaxCompetitors == 2
\* Largest latitude, in miles of arc along one meridian.
MaxCoord == 6
\* Table sizes and number of requests in flight in the concurrent specification.
ParZipRows == 1
ParCompetitors == 1
NumCalls == 2

\* ---------------------------------------------------------------- constants
\* `vincenty(co, cz).miles < 5`
RADIUS == 5
\* `rate = 1.0` and `rate = 0.8`: the float literals, as the fractions written.
FullRate == [num |-> 1, den |-> 1]
DiscountRate == [num |-> 8, den |-> 10]
\* A Python float is an IEEE binary64: 53 significant bits.
MantissaBits == 53

ZipValues == {"z1", "z2"}
Latitudes == 0..MaxCoord
\* The concurrent specification places every zip at one of the two ends.
ParLatitudes == {0, MaxCoord}
\* DecimalField(max_digits=15, decimal_places=2): the price in cents.
BasePrices == {0, 10000}

SeqsUpTo(S, n) == UNION {[1..k -> S] : k \in 0..n}

\* Zipcode rows (zip, la, lo); Competitor rows (zip); city, state, name and address
\* take no part in adjusted_price.
ZipcodeRows == [zip : ZipValues, la : Latitudes, lo : {0}]
CompetitorRows == [zip : ZipValues]

\* request.GET: a dictionary that has the key 'zip' or does not.
Requests == {<<>>} \cup {[k \in {"zip"} |-> z] : z \in {""} \cup ZipValues}

\* ---------------------------------------------------------------- helpers
\* dict.get(key, default)
Get(GET, key, default) == IF key \in DOMAIN GET THEN GET[key] ELSE default

TruthyAlways(s) == TRUE
\* Truth value of a Python str: the empty string is false.
Truthy(s) == s # ""

\* Zipcode.objects.filter(zip=z): the matching rows, in table order.
Filter(rows, z) == SelectSeq(rows, LAMBDA r : r.zip = z)

Index0Last(rows) == rows[Len(rows)]
\* queryset[0]: the first row (IndexError on an empty queryset is the caller's guard).
Index0(rows) == rows[1]

\* Zipcode.coordinate
coordinate(row) == <<row.la, row.lo>>

Abs(x) == IF x < 0 THEN -x ELSE x
\* vincenty(a, b).miles of geopy, for points of one meridian whose latitude is
\* measured in miles of arc.
vincenty(a, b) == Abs(a[1] - b[1]) + Abs(a[2] - b[2])

QualifiesLe(a, b) == vincenty(a, b) <= RADIUS
\* `vincenty(co, cz).miles < 5`
Qualifies(a, b) == vincenty(a, b) < RADIUS

RECURSIVE PowMod(_, _, _)
PowMod(b, e, m) == IF e = 0 THEN 1 % m ELSE (b * PowMod(b, e - 1, m)) % m

\* Decimal(rate) for a float rate in [1/2, 1]: the float is the multiple of
\* 2^-MantissaBits nearest to num/den, and Decimal converts that float exactly.
\* The value is num/den + err/(den * 2^MantissaBits); err is found from the
\* remainder of num * 2^MantissaBits by den (round to nearest; no tie arises for
\* the two literals of the program).
DecimalOfFloat(r) ==
  LET rem == (r.num * PowMod(2, MantissaBits, r.den)) % r.den
  IN [num |-> r.num, den |-> r.den,
      err |-> IF 2 * rem < r.den THEN 0 - rem ELSE r.den - rem]

\* baseprice * Decimal(rate), in cents. The 28-digit context of decimal keeps the
\* error term: it is 17 digits below the leading digit.
DecimalMul(cents, d) == [num |-> cents * d.num, den |-> d.den, err |-> cents * d.err]

\* Two decimal values are the same number.
DecimalEq(v, w) == v.num * w.den = w.num * v.den /\ v.err * w.den = w.err * v.den

\* The decimal value v is exactly a/b cents.
ExactlyEquals(v, a, b) == v.err = 0 /\ v.num * b = a * v.den

NoCoord == <<-1, -1>>
NoRate == [num |-> 0, den |-> 1]
NoResult == [num |-> -1, den |-> 1, err |-> 0]
NoCompetitor == [zip |-> ""]

\* ---------------------------------------------------------------- states
Fresh(Calls) ==
  /\ pc = [c \in Calls |-> "start"]
  /\ rate = [c \in Calls |-> NoRate]
  /\ co = [c \in Calls |-> NoCoord]
  /\ it = [c \in Calls |-> 0]
  /\ cur = [c \in Calls |-> NoCompetitor]
  /\ evaluated = [c \in Calls |-> <<>>]
  /\ lookups = [c \in Calls |-> <<>>]
  /\ result = [c \in Calls |-> NoResult]
  /\ exc = [c \in Calls |-> ""]

\* One request against any content of the three tables.
Init ==
  /\ product \in [baseprice : BasePrices]
  /\ competitors \in SeqsUpTo(CompetitorRows, MaxCompetitors)
  /\ zipcodes \in SeqsUpTo(ZipcodeRows, MaxZipRows)
  /\ request \in [{1} -> Requests]
  /\ Fresh({1})

\* Several requests in flight against the same tables.
InitPar ==
  /\ product \in [baseprice : BasePrices]
  /\ competitors \in SeqsUpTo(CompetitorRows, ParCompetitors)
  /\ zipcodes \in SeqsUpTo([zip : ZipValues, la : ParLatitudes, lo : {0}], ParZipRows)
  /\ request \in [1..NumCalls -> Requests]
  /\ Fresh(1..NumCalls)

\* ---------------------------------------------------------------- adjusted_price
\* rate = 1.0; if request.GET.get('zip',''):
CheckZip(c) ==
  /\ pc[c] = "start"
  /\ rate' = [rate EXCEPT ![c] = FullRate]
  /\ pc' = [pc EXCEPT ![c] = IF Truthy(Get(request[c], "zip", "")) THEN "lookup" ELSE "return"]
  /\ UNCHANGED <<tables, request, co, it, cur, evaluated, lookups, result, exc>>

LookupShopperDefault(c) ==
  /\ pc[c] = "lookup"
  /\ LET z == Get(request[c], "zip", "")
         rows == Filter(zipcodes, z)
     IN /\ lookups' = [lookups EXCEPT ![c] = Append(@, z)]
        /\ co' = [co EXCEPT ![c] = IF rows = <<>> THEN <<0, 0>> ELSE coordinate(Index0(rows))]
        /\ pc' = [pc EXCEPT ![c] = "for"]
  /\ UNCHANGED <<tables, request, rate, it, cur, evaluated, result, exc>>

\* co = Zipcode.objects.filter(zip=request.GET['zip'])[0].coordinate()
LookupShopper(c) ==
  /\ pc[c] = "lookup"
  /\ IF "zip" \notin DOMAIN request[c]
       THEN /\ pc' = [pc EXCEPT ![c] = "raised"]
            /\ exc' = [exc EXCEPT ![c] = "KeyError"]
            /\ UNCHANGED <<co, lookups>>
       ELSE LET rows == Filter(zipcodes, request[c]["zip"])
            IN /\ lookups' = [lookups EXCEPT ![c] = Append(@, request[c]["zip"])]
               /\ IF rows = <<>>
                    THEN /\ pc' = [pc EXCEPT ![c] = "raised"]
                         /\ exc' = [exc EXCEPT ![c] = "IndexError"]
                         /\ UNCHANGED co
                    ELSE /\ co' = [co EXCEPT ![c] = coordinate(Index0(rows))]
                         /\ pc' = [pc EXCEPT ![c] = "for"]
                         /\ UNCHANGED exc
  /\ UNCHANGED <<tables, request, rate, it, cur, evaluated, result>>

\* for c in Competitor.objects.all(): the next record in table order, or the end
\* of the loop.
ForNext(c) ==
  /\ pc[c] = "for"
  /\ IF it[c] < Len(competitors)
       THEN /\ it' = [it EXCEPT ![c] = @ + 1]
            /\ cur' = [cur EXCEPT ![c] = competitors[it[c] + 1]]
            /\ pc' = [pc EXCEPT ![c] = "body"]
       ELSE /\ pc' = [pc EXCEPT ![c] = "return"]
            /\ UNCHANGED <<it, cur>>
  /\ UNCHANGED <<tables, request, rate, co, evaluated, lookups, result, exc>>

\* The loop body: cz = Zipcode.objects.filter(zip=str(c.zip))[0].coordinate();
\* if vincenty(co, cz).miles < 5: rate = 0.8; and then `break`, which stands at
\* the level of the body, not inside the `if`.
Body(c) ==
  /\ pc[c] = "body"
  /\ LET rows == Filter(zipcodes, cur[c].zip)
     IN /\ lookups' = [lookups EXCEPT ![c] = Append(@, cur[c].zip)]
        /\ IF rows = <<>>
             THEN /\ pc' = [pc EXCEPT ![c] = "raised"]
                  /\ exc' = [exc EXCEPT ![c] = "IndexError"]
                  /\ UNCHANGED <<rate, evaluated>>
             ELSE LET cz == coordinate(Index0(rows))
                  IN /\ evaluated' = [evaluated EXCEPT ![c] =
                            Append(@, [idx |-> it[c], cz |-> cz, miles |-> vincenty(co[c], cz)])]
                     /\ rate' = [rate EXCEPT ![c] =
                            IF Qualifies(co[c], cz) THEN DiscountRate ELSE @]
                     /\ pc' = [pc EXCEPT ![c] = "return"]
                     /\ UNCHANGED exc
  /\ UNCHANGED <<tables, request, co, it, cur, result>>

ReturnStoring(c) ==
  /\ pc[c] = "return"
  /\ result' = [result EXCEPT ![c] = DecimalMul(product.baseprice, DecimalOfFloat(rate[c]))]
  /\ product' = [product EXCEPT !.baseprice = (@ * rate[c].num) \div rate[c].den]
  /\ pc' = [pc EXCEPT ![c] = "done"]
  /\ UNCHANGED <<competitors, zipcodes, request, rate, co, it, cur, evaluated, lookups, exc>>

\* return self.baseprice * Decimal(rate)
Return(c) ==
  /\ pc[c] = "return"
  /\ result' = [result EXCEPT ![c] = DecimalMul(product.baseprice, DecimalOfFloat(rate[c]))]
  /\ pc' = [pc EXCEPT ![c] = "done"]
  /\ UNCHANGED <<tables, request, rate, co, it, cur, evaluated, lookups, exc>>

\* adjusted_price run from entry to exit in one piece: what a call returns, or
\* the exception it raises, on the given product, request and tables.
adjusted_price(self, GET, zips, comps) ==
  LET returns(r) == [outcome |-> "done", exc |-> "",
                     value |-> DecimalMul(self.baseprice, DecimalOfFloat(r))]
      raises(e) == [outcome |-> "raised", exc |-> e, value |-> NoResult]
  IN IF ~Truthy(Get(GET, "zip", "")) THEN returns(FullRate)
     ELSE IF Filter(zips, GET["zip"]) = <<>> THEN raises("IndexError")
     ELSE IF comps = <<>> THEN returns(FullRate)
     ELSE IF Filter(zips, comps[1].zip) = <<>> THEN raises("IndexError")
     ELSE IF Qualifies(coordinate(Index0(Filter(zips, GET["zip"]))),
                       coordinate(Index0(Filter(zips, comps[1].zip))))
            THEN returns(DiscountRate)
     ELSE returns(FullRate)

Next ==
  \/ \E c \in DOMAIN pc : CheckZip(c)
  \/ \E c \in DOMAIN pc : LookupShopper(c)
  \/ \E c \in DOMAIN pc : ForNext(c)
  \/ \E c \in DOMAIN pc : Body(c)
  \/ \E c \in DOMAIN pc : Return(c)

Spec == Init /\ [][Next]_vars
SpecPar == InitPar /\ [][Next]_vars

\* ---------------------------------------------------------------- properties
Finished(c) == pc[c] \in {"done", "raised"}
ShopperZip(c) == Get(request[c], "zip", "")
Resolvable(z) == \E i \in 1..Len(zipcodes) : zipcodes[i].zip = z
\* The coordinate of the first row of the Zipcode table, in table order, with zip z.
FirstRowCoord(z) ==
  LET i == CHOOSE i \in 1..Len(zipcodes) :
             zipcodes[i].zip = z /\ \A j \in 1..(i - 1) : zipcodes[j].zip # z
  IN <<zipcodes[i].la, zipcodes[i].lo>>
\* Competitor k is strictly under RADIUS miles from the shopper of call c.
Near(c, k) == vincenty(FirstRowCoord(ShopperZip(c)), FirstRowCoord(competitors[k].zip)) < RADIUS
AllResolvable == \A k \in 1..Len(competitors) : Resolvable(competitors[k].zip)
ShopperResolves(c) == ShopperZip(c) # "" /\ Resolvable(ShopperZip(c))
Perms(s) ==
  {[i \in 1..Len(s) |-> s[f[i]]] :
     f \in {g \in [1..Len(s) -> 1..Len(s)] : \A a, b \in 1..Len(s) : g[a] = g[b] => a = b}}

\* C1: with the 'zip' parameter absent or empty, adjusted_price returns exactly
\* baseprice, raises nothing, and makes no zip lookup and no competitor scan,
\* whatever the tables hold.
C1_NoZipReturnsBasePrice ==
  \A c \in DOMAIN pc :
    ShopperZip(c) = "" =>
      /\ pc[c] \in {"start", "return", "done"}
      /\ lookups[c] = <<>>
      /\ evaluated[c] = <<>>
      /\ it[c] = 0
      /\ pc[c] = "done" => ExactlyEquals(result[c], product.baseprice, 1)

C1_Witness ==
  \E c \in DOMAIN pc :
    /\ "zip" \in DOMAIN request[c]
    /\ request[c]["zip"] = ""
    /\ pc[c] = "done"
    /\ product.baseprice > 0
    /\ competitors # <<>>
    /\ zipcodes # <<>>

\* C2: with a resolvable shopper zip and a non-empty list of competitors with
\* resolvable zips, one of which (at any position) is strictly under 5 miles
\* from the shopper, adjusted_price returns with the rate 0.8.
C2_AnyNearCompetitorDiscounts ==
  \A c \in DOMAIN pc :
    ( /\ Finished(c)
      /\ ShopperResolves(c)
      /\ competitors # <<>>
      /\ AllResolvable
      /\ \E k \in 1..Len(competitors) : Near(c, k) )
    => pc[c] = "done" /\ rate[c] = DiscountRate

\* C3: with a resolvable shopper zip and every competitor 5 miles or more away
\* (exactly 5 included, no competitor included), the rate stays 1.0 and
\* adjusted_price returns exactly baseprice.
C3_NoNearCompetitorBasePrice ==
  \A c \in DOMAIN pc :
    ( /\ ShopperResolves(c)
      /\ AllResolvable
      /\ \A k \in 1..Len(competitors) : ~Near(c, k) )
    => /\ pc[c] # "raised"
       /\ rate[c] # DiscountRate
       /\ pc[c] \in {"return", "done"} => rate[c] = FullRate
       /\ pc[c] = "done" => ExactlyEquals(result[c], product.baseprice, 1)

C3_Witness ==
  \E c \in DOMAIN pc :
    /\ pc[c] = "done"
    /\ ShopperResolves(c)
    /\ AllResolvable
    /\ \A k \in 1..Len(competitors) : ~Near(c, k)
    /\ evaluated[c] # <<>>
    /\ evaluated[c][1].miles = RADIUS
    /\ product.baseprice > 0

\* C4: with a resolvable shopper zip and a competitor whose zip has no Zipcode
\* row, adjusted_price does not abort: it returns a price, discounted exactly
\* when some competitor with a resolvable zip is strictly under 5 miles.
C4_MissingCompetitorZipSkipped ==
  \A c \in DOMAIN pc :
    ( /\ ShopperResolves(c)
      /\ \E k \in 1..Len(competitors) : ~Resolvable(competitors[k].zip) )
    => /\ pc[c] # "raised"
       /\ pc[c] = "done" =>
            ( rate[c] = DiscountRate <=>
                \E k \in 1..Len(competitors) :
                  Resolvable(competitors[k].zip) /\ Near(c, k) )

\* C5: with a non-empty shopper zip that has no Zipcode row, adjusted_price
\* either returns baseprice or raises a lookup error; it never discounts and
\* never evaluates a competitor.
C5_UnknownShopperZip ==
  \A c \in DOMAIN pc :
    (ShopperZip(c) # "" /\ ~Resolvable(ShopperZip(c))) =>
      /\ rate[c] # DiscountRate
      /\ evaluated[c] = <<>>
      /\ it[c] = 0
      /\ co[c] = NoCoord
      /\ pc[c] \in {"start", "lookup", "raised", "return", "done"}
      /\ pc[c] = "raised" => exc[c] = "IndexError"
      /\ pc[c] = "done" => ExactlyEquals(result[c], product.baseprice, 1)

C5_Witness ==
  \E c \in DOMAIN pc :
    /\ ShopperZip(c) # ""
    /\ ~Resolvable(ShopperZip(c))
    /\ pc[c] = "raised"
    /\ exc[c] = "IndexError"
    /\ competitors # <<>>
    /\ Resolvable(competitors[1].zip)

\* C6: adjusted_price is read-only: no step changes the Product, Competitor or
\* Zipcode records, and whatever the interleaving of several calls, each call
\* ends as it would have run alone.
C6_ReadOnly ==
  /\ [][tables' = tables]_vars
  /\ [](\A c \in DOMAIN pc :
          Finished(c) =>
            LET alone == adjusted_price(product, request[c], zipcodes, competitors)
            IN /\ pc[c] = alone.outcome
               /\ exc[c] = alone.exc
               /\ result[c] = alone.value)

C6_Witness ==
  \E c1, c2 \in DOMAIN pc :
    /\ c1 # c2
    /\ pc[c1] = "done"
    /\ rate[c1] = DiscountRate
    /\ product.baseprice > 0
    /\ pc[c2] = "body"

\* C7: the result is exact decimal arithmetic: exactly baseprice * 8/10 when the
\* discount applies, exactly baseprice when it does not.
C7_ExactDecimalResult ==
  \A c \in DOMAIN pc :
    pc[c] = "done" =>
      IF rate[c] = DiscountRate
        THEN ExactlyEquals(result[c], product.baseprice * 8, 10)
        ELSE ExactlyEquals(result[c], product.baseprice, 1)

\* C8: the scan evaluates the competitors in table order, stops right after the
\* first one strictly under 5 miles, and evaluates every competitor when none
\* qualifies.
C8_ShortCircuitAtFirstQualifying ==
  \A c \in DOMAIN pc :
    /\ \A j \in 1..Len(evaluated[c]) :
         /\ evaluated[c][j].idx = j
         /\ j < Len(evaluated[c]) => evaluated[c][j].miles >= RADIUS
    /\ ( /\ pc[c] = "done"
         /\ ShopperResolves(c)
         /\ \A j \in 1..Len(evaluated[c]) : evaluated[c][j].miles >= RADIUS )
       => Len(evaluated[c]) = Len(competitors)

\* C9: with several Zipcode rows of one zip, every lookup takes the first row in
\* table order, so a competitor sharing the shopper's zip is at distance 0 and
\* the discount applies when it is evaluated.
C9_FirstMatchingRow ==
  \A c \in DOMAIN pc :
    /\ co[c] # NoCoord => co[c] = FirstRowCoord(ShopperZip(c))
    /\ \A j \in 1..Len(evaluated[c]) :
         LET e == evaluated[c][j]
         IN /\ e.cz = FirstRowCoord(competitors[e.idx].zip)
            /\ competitors[e.idx].zip = ShopperZip(c) =>
                 e.miles = 0 /\ rate[c] = DiscountRate

C9_Witness ==
  \E c \in DOMAIN pc :
    /\ Len(zipcodes) >= 2
    /\ zipcodes[1].zip = zipcodes[2].zip
    /\ Abs(zipcodes[1].la - zipcodes[2].la) >= RADIUS
    /\ ShopperZip(c) = zipcodes[1].zip
    /\ pc[c] = "done"
    /\ evaluated[c] # <<>>
    /\ competitors[1].zip = ShopperZip(c)
    /\ rate[c] = DiscountRate

\* C10: the returned price does not depend on the order of the Competitor
\* records: every permutation of the list gives the price this call returned.
C10_OrderIndependent ==
  \A c \in DOMAIN pc :
    (pc[c] = "done" /\ ShopperResolves(c) /\ AllResolvable) =>
      \A p \in Perms(competitors) :
        LET other == adjusted_price(product, request[c], zipcodes, p)
        IN other.outcome = "done" /\ DecimalEq(other.value, result[c])

====
